---------------------------- MODULE Spec2Model ----------------------------
(***************************************************************************)
(* Model of the quotation parser of app/pdf_pipeline.py (with the numeric  *)
(* coercion of app/validation.py and the record types of app/schema.py).   *)
(*                                                                         *)
(* A text is the sequence of its raw lines (what str.splitlines() gives);  *)
(* a line is a TLA+ string read character by character.  The patterns of   *)
(* the code (re.match, re.search, re.findall, re.split, str.strip, in,     *)
(* startswith) are operators over these strings, written from the          *)
(* patterns themselves.  Two characters of the code are written in ASCII:  *)
(* the currency glyph U+20B9 is "$" and the multiplication sign U+00D7 is  *)
(* "*"; no rule of the code treats "$" or "*" specially, so the renaming   *)
(* changes no classification.                                              *)
(*                                                                         *)
(* A float is a record [k, v]: k = "fin" with v the value in thousandths   *)
(* (fixed point), or k = "nan" / "inf" / "ninf" for the special values     *)
(* float() accepts.                                                        *)
(***************************************************************************)
EXTENDS Integers, Sequences, FiniteSets, TLC

(***************************************************************************)
(* Characters and strings                                                  *)
(***************************************************************************)
Rupee == "$"
Times == "*"

Ch(s, i) == SubSeq(s, i, i)

Digits == {"0", "1", "2", "3", "4", "5", "6", "7", "8", "9"}
Spaces == {" ", "\t"}

IsDigit(c) == c \in Digits
IsSpace(c) == c \in Spaces

DigitVal(c) ==
    CASE c = "0" -> 0 [] c = "1" -> 1 [] c = "2" -> 2 [] c = "3" -> 3
      [] c = "4" -> 4 [] c = "5" -> 5 [] c = "6" -> 6 [] c = "7" -> 7
      [] c = "8" -> 8 [] c = "9" -> 9

\* str.lower() / str.upper() of one character
LowerCh(c) ==
    CASE c = "A" -> "a" [] c = "B" -> "b" [] c = "C" -> "c" [] c = "D" -> "d"
      [] c = "E" -> "e" [] c = "F" -> "f" [] c = "G" -> "g" [] c = "H" -> "h"
      [] c = "I" -> "i" [] c = "J" -> "j" [] c = "K" -> "k" [] c = "L" -> "l"
      [] c = "M" -> "m" [] c = "N" -> "n" [] c = "O" -> "o" [] c = "P" -> "p"
      [] c = "Q" -> "q" [] c = "R" -> "r" [] c = "S" -> "s" [] c = "T" -> "t"
      [] c = "U" -> "u" [] c = "V" -> "v" [] c = "W" -> "w" [] c = "X" -> "x"
      [] c = "Y" -> "y" [] c = "Z" -> "z" [] OTHER -> c

RECURSIVE Lower(_)
Lower(s) == IF s = "" THEN "" ELSE LowerCh(Head(s)) \o Lower(Tail(s))

\* s[i:] and s[:i] with 1-based positions: From(s, i) starts at character i
From(s, i) == SubSeq(s, i, Len(s))
Upto(s, i) == SubSeq(s, 1, i)

\* s.startswith(p), at position i
StartsAt(s, i, p) == i + Len(p) - 1 <= Len(s) /\ SubSeq(s, i, i + Len(p) - 1) = p
StartsWith(s, p) == StartsAt(s, 1, p)

\* the same, ignoring case (p is in lower case)
StartsAtI(s, i, p) ==
    i + Len(p) - 1 <= Len(s) /\ Lower(SubSeq(s, i, i + Len(p) - 1)) = p

\* p in s
Contains(s, p) == \E i \in 1..(Len(s) + 1) : StartsAt(s, i, p)

\* s.find(p): first 0-based index of p in s, -1 when absent
Find(s, p) ==
    IF Contains(s, p)
    THEN (CHOOSE i \in 1..(Len(s) + 1) :
              StartsAt(s, i, p) /\ \A j \in 1..(i - 1) : ~StartsAt(s, j, p)) - 1
    ELSE -1

\* first position >= i whose character is not whitespace (Len(s)+1 if none)
RECURSIVE SkipSpaces(_, _)
SkipSpaces(s, i) ==
    IF i <= Len(s) /\ IsSpace(Ch(s, i)) THEN SkipSpaces(s, i + 1) ELSE i

\* first position >= i whose character is not a digit
RECURSIVE SkipDigits(_, _)
SkipDigits(s, i) ==
    IF i <= Len(s) /\ IsDigit(Ch(s, i)) THEN SkipDigits(s, i + 1) ELSE i

\* last position <= i whose character is not whitespace (0 if none)
RECURSIVE BackSpaces(_, _)
BackSpaces(s, i) ==
    IF i >= 1 /\ IsSpace(Ch(s, i)) THEN BackSpaces(s, i - 1) ELSE i

\* str.strip()
Strip(s) == SubSeq(s, SkipSpaces(s, 1), BackSpaces(s, Len(s)))

\* str.lstrip(":")
RECURSIVE LStripColon(_)
LStripColon(s) == IF s # "" /\ Head(s) = ":" THEN LStripColon(Tail(s)) ELSE s

\* str.replace(c, "") for a one-character c
RECURSIVE Remove(_, _)
Remove(s, c) ==
    IF s = "" THEN ""
    ELSE IF Head(s) = c THEN Remove(Tail(s), c)
    ELSE Head(s) \o Remove(Tail(s), c)

\* str.replace(c, d) for one-character c, d
RECURSIVE Replace(_, _, _)
Replace(s, c, d) ==
    IF s = "" THEN ""
    ELSE (IF Head(s) = c THEN d ELSE Head(s)) \o Replace(Tail(s), c, d)

\* the characters of s that are not in the set cs (re.sub of a class by "")
RECURSIVE RemoveAll(_, _)
RemoveAll(s, cs) ==
    IF s = "" THEN ""
    ELSE IF Head(s) \in cs THEN RemoveAll(Tail(s), cs)
    ELSE Head(s) \o RemoveAll(Tail(s), cs)

\* first position >= i whose character is not in cs
RECURSIVE SkipClass(_, _, _)
SkipClass(s, i, cs) ==
    IF i <= Len(s) /\ Ch(s, i) \in cs THEN SkipClass(s, i + 1, cs) ELSE i

\* re.findall(r"[cs]+", s): the maximal runs of characters of cs, in order
RECURSIVE Runs(_, _, _)
Runs(s, i, cs) ==
    IF i > Len(s) THEN <<>>
    ELSE IF Ch(s, i) \in cs
         THEN LET j == SkipClass(s, i, cs)
              IN  <<SubSeq(s, i, j - 1)>> \o Runs(s, j, cs)
         ELSE Runs(s, i + 1, cs)

\* " ".join(parts)
RECURSIVE Join(_)
Join(parts) ==
    IF parts = <<>> THEN ""
    ELSE IF Len(parts) = 1 THEN parts[1]
    ELSE parts[1] \o " " \o Join(Tail(parts))

(***************************************************************************)
(* The patterns of pdf_pipeline.py                                         *)
(***************************************************************************)
DigitsComma == Digits \cup {","}
DigitsDot == Digits \cup {"."}
DigitsSpaces == Digits \cup Spaces
XChars == {"x", "X", Times}
WordChars == Digits \cup {"_"} \cup
    {"a", "b", "c", "d", "e", "f", "g", "h", "i", "j", "k", "l", "m", "n",
     "o", "p", "q", "r", "s", "t", "u", "v", "w", "x", "y", "z"}

\* _normalize(s): (s or "").strip()
Normalize(s) == Strip(s)

\* re.match(r"^(sub\s*total|total|grand\s*total|tax)", line, re.I)
IsTotalsLine(line) ==
    \/ StartsAtI(line, 1, "sub") /\ StartsAtI(line, SkipSpaces(line, 4), "total")
    \/ StartsAtI(line, 1, "total")
    \/ StartsAtI(line, 1, "grand") /\ StartsAtI(line, SkipSpaces(line, 6), "total")
    \/ StartsAtI(line, 1, "tax")

\* re.match(r"^\s*(\d+)\s+(.+)$", line): [ok, sr_no = group 1, name = group 2].
\* \s+ is greedy and gives one character back to .+ when the line ends in
\* whitespace.
StartMatch(line) ==
    LET p == SkipSpaces(line, 1)
        q == SkipDigits(line, p)
        r == SkipSpaces(line, q)
        no == [ok |-> FALSE, sr_no |-> "", name |-> ""]
    IN  IF q = p \/ r = q THEN no
        ELSE IF r <= Len(line)
             THEN [ok |-> TRUE, sr_no |-> SubSeq(line, p, q - 1), name |-> From(line, r)]
        ELSE IF r - q >= 2
             THEN [ok |-> TRUE, sr_no |-> SubSeq(line, p, q - 1),
                   name |-> From(line, Len(line))]
        ELSE no

\* is_price_line: the currency glyph occurs in ln (line 187)
HasGlyph(ln) == Contains(ln, Rupee)

\* has_x: " x " in ln.lower(), or the multiplication sign between spaces (line 188)
HasX(ln) == Contains(Lower(ln), " x ") \/ Contains(ln, " " \o Times \o " ")

\* nums_in_ln = re.findall(r"[\d,]+", ln) (line 189)
NumsInLn(ln) == Runs(ln, 1, DigitsComma)

\* only_nums_regex: ln is made of glyphs, whitespace, digits, "," and "." (line 190)
OnlyNumsRegex(ln) ==
    /\ ln # ""
    /\ \A i \in 1..Len(ln) : Ch(ln, i) \in DigitsSpaces \cup {Rupee, ",", "."}

\* mostly_nums (lines 192-193)
MostlyNums(ln) ==
    /\ Len(RemoveAll(ln, DigitsSpaces \cup {Rupee, ",", "."})) <= 1
    /\ Len(NumsInLn(ln)) >= 2

\* alt_price (line 194)
AltPrice(ln) ==
    /\ ~HasGlyph(ln)
    /\ Len(NumsInLn(ln)) >= 2
    /\ ~HasX(ln)
    /\ (OnlyNumsRegex(ln) \/ MostlyNums(ln))

\* the branch of lines 195-200 that finalizes the block: not (no glyph and
\* has_x), and (is_price_line or alt_price)
IsPriceLine(ln) ==
    /\ ~(~HasGlyph(ln) /\ HasX(ln))
    /\ (HasGlyph(ln) \/ AltPrice(ln))

\* mutant of ParsePriceLine: with two tokens the amount is the first token
ParsePriceLineAmountFirst(line) ==
    LET line_clean == Strip(Remove(Remove(line, ","), Rupee))
        nums == Runs(line_clean, 1, DigitsDot)
    IN  IF Len(nums) >= 3 THEN <<nums[1], nums[2], nums[3]>>
        ELSE IF Len(nums) = 2 THEN <<nums[1], nums[2], nums[1]>>
        ELSE IF Len(nums) = 1 THEN <<nums[1], "1", nums[1]>>
        ELSE <<"", "", "">>

\* mutant of ParsePriceLine: with three or more tokens the amount is the
\* last token
ParsePriceLineLastAmount(line) ==
    LET line_clean == Strip(Remove(Remove(line, ","), Rupee))
        nums == Runs(line_clean, 1, DigitsDot)
    IN  IF Len(nums) >= 3 THEN <<nums[1], nums[2], nums[Len(nums)]>>
        ELSE IF Len(nums) = 2 THEN <<nums[1], nums[2], nums[2]>>
        ELSE IF Len(nums) = 1 THEN <<nums[1], "1", nums[1]>>
        ELSE <<"", "", "">>

\* _parse_price_line(line): <<unit_price, qty, amount>>
ParsePriceLine(line) ==
    LET line_clean == Strip(Remove(Remove(line, ","), Rupee))
        nums == Runs(line_clean, 1, DigitsDot)
    IN  IF Len(nums) >= 3 THEN <<nums[1], nums[2], nums[3]>>
        ELSE IF Len(nums) = 2 THEN <<nums[1], nums[2], nums[2]>>
        ELSE IF Len(nums) = 1 THEN <<nums[1], "1", nums[1]>>
        ELSE <<"", "", "">>

\* dim_m: digits and whitespace, a multiplier x, X or the multiplication sign,
\* then a digit or whitespace (line 202)
DimM(ln) ==
    LET r == SkipClass(ln, 1, DigitsSpaces)
    IN  /\ r > 1
        /\ r + 1 <= Len(ln)
        /\ Ch(ln, r) \in XChars
        /\ Ch(ln, r + 1) \in DigitsSpaces

\* has_dim_pattern: somewhere a number, an optional "Dia", a multiplier and a
\* number, whitespace allowed between them (line 203)
HasDimPattern(ln) ==
    \E j \in 1..Len(ln) :
        /\ Ch(ln, j) \in XChars
        /\ LET a == SkipSpaces(ln, j + 1)
           IN  a <= Len(ln) /\ IsDigit(Ch(ln, a))
        /\ LET b == BackSpaces(ln, j - 1)
           IN  \/ b >= 1 /\ IsDigit(Ch(ln, b))
               \/ /\ b >= 3
                  /\ SubSeq(ln, b - 2, b) = "Dia"
                  /\ LET c == BackSpaces(ln, b - 3)
                     IN  c >= 1 /\ IsDigit(Ch(ln, c))

IsDimLine(ln) == DimM(ln) \/ HasDimPattern(ln)

\* the suffix keywords of line 208
DimSeps == <<" Base ", " Top in ", " Finish ", " construction ", " Internal ">>

\* lines 207-211: the least p = ln_norm.upper().find(sep.upper()) with p > 0
\* over the separators, -1 when there is none
DimSplitPos(ln_norm) ==
    LET ps == {Find(Lower(ln_norm), Lower(DimSeps[k])) : k \in 1..Len(DimSeps)}
        pos == {p \in ps : p > 0}
    IN  IF pos = {} THEN -1 ELSE CHOOSE p \in pos : \A q \in pos : p <= q

\* lines 205-217: [dimensions, desc]; desc is the part appended to the
\* description ("" when nothing is appended)
DimSplit(ln) ==
    LET ln_norm == Normalize(ln)
        pos == DimSplitPos(ln_norm)
    IN  IF pos > 0
        THEN [dimensions |-> Strip(Upto(ln_norm, pos)),
              desc |-> Strip(From(ln_norm, pos + 1))]
        ELSE [dimensions |-> ln_norm, desc |-> ""]

\* re.search(r"s\.?\s*no\.?|sr\.?\s*no\.?", line, re.I) (line 248)
SerialHeader(line) ==
    LET l == Lower(line)
        After(i) == SkipSpaces(l, IF i <= Len(l) /\ Ch(l, i) = "." THEN i + 1 ELSE i)
    IN  \E i \in 1..Len(l) :
            \/ Ch(l, i) = "s" /\ StartsAt(l, After(i + 1), "no")
            \/ StartsAt(l, i, "sr") /\ StartsAt(l, After(i + 2), "no")

\* line 255
ProductHeader(line) ==
    LET line_lower == Lower(line)
    IN  /\ Contains(line_lower, "product")
        /\ \/ Contains(line_lower, "qty")
           \/ Contains(line_lower, "amount")
           \/ Contains(line_lower, "description")

\* mutant of UseMultiline: "specs" alone selects the block strategy
UseMultilineSpecsOnly(header_line) == Contains(Lower(header_line), "specs")

\* use_multiline (lines 262-263)
UseMultiline(header_line) ==
    LET header_lower == Lower(header_line)
    IN  /\ Contains(header_lower, "specs")
        /\ (Contains(header_lower, "price") \/ Contains(header_lower, "qty"))
        /\ Contains(header_lower, "amount")

\* re.split(r"\s{2,}|\t", line): the separators are the whitespace runs of
\* length >= 2 and the single tabs; start is where the current part began
RECURSIVE SplitWide(_, _, _)
SplitWide(s, i, start) ==
    IF i > Len(s) THEN <<SubSeq(s, start, Len(s))>>
    ELSE IF IsSpace(Ch(s, i))
         THEN LET j == SkipSpaces(s, i)
              IN  IF j - i >= 2
                  THEN <<SubSeq(s, start, i - 1)>> \o SplitWide(s, j, j)
                  ELSE IF Ch(s, i) = "\t"
                  THEN <<SubSeq(s, start, i - 1)>> \o SplitWide(s, i + 1, i + 1)
                  ELSE SplitWide(s, i + 1, start)
         ELSE SplitWide(s, i + 1, start)

\* re.split(r"\s+", line)
RECURSIVE SplitWs(_, _, _)
SplitWs(s, i, start) ==
    IF i > Len(s) THEN <<SubSeq(s, start, Len(s))>>
    ELSE IF IsSpace(Ch(s, i))
         THEN LET j == SkipSpaces(s, i)
              IN  <<SubSeq(s, start, i - 1)>> \o SplitWs(s, j, j)
         ELSE SplitWs(s, i + 1, start)

\* _parts_for_line(line) (lines 268-273)
PartsForLine(line) ==
    LET wide == SplitWide(line, 1, 1)
        parts == SplitWs(line, 1, 1)
    IN  IF Len(wide) >= 3 THEN wide
        ELSE IF Len(parts) > 9 THEN SubSeq(parts, 1, 9) ELSE parts

\* re.match(r"^\d+\.?\d*$", sr_no) (line 297)
PlainNumber(t) ==
    LET q == SkipDigits(t, 1)
        r == IF q <= Len(t) /\ Ch(t, q) = "." THEN q + 1 ELSE q
    IN  q > 1 /\ SkipDigits(t, r) = Len(t) + 1

\* re.findall(r"[\d,]+\.?\d*", line) (lines 310, 314, 318)
RECURSIVE FindNums(_, _)
FindNums(s, i) ==
    IF i > Len(s) THEN <<>>
    ELSE IF Ch(s, i) \in DigitsComma
         THEN LET a == SkipClass(s, i, DigitsComma)
                  b == IF a <= Len(s) /\ Ch(s, a) = "." THEN a + 1 ELSE a
                  c == SkipDigits(s, b)
              IN  <<SubSeq(s, i, c - 1)>> \o FindNums(s, c)
         ELSE FindNums(s, i + 1)

\* re.match(r"^tax\b", line_lower) (line 313)
TaxLine(line_lower) ==
    /\ StartsWith(line_lower, "tax")
    /\ (Len(line_lower) = 3 \/ Ch(line_lower, 4) \notin WordChars)

(***************************************************************************)
(* Floats: float(), _safe_float and int() of validation.py                 *)
(***************************************************************************)
\* fixed-point unit of the finite floats: thousandths
Scale == 1000

Fin(v) == [k |-> "fin", v |-> v]
NaN == [k |-> "nan", v |-> 0]
PosInf == [k |-> "inf", v |-> 0]
NegInf == [k |-> "ninf", v |-> 0]
ValueError == [k |-> "err", v |-> 0]

\* the value of a string of digits ("" is 0)
RECURSIVE NatVal(_)
NatVal(ds) ==
    IF ds = "" THEN 0
    ELSE 10 * NatVal(Upto(ds, Len(ds) - 1)) + DigitVal(Ch(ds, Len(ds)))

\* float(s) for the spellings: [sign] digits [. digits], [sign] . digits,
\* [sign] inf | infinity | nan (any case), with whitespace around; anything
\* else is a ValueError.  The inputs of the model hold no exponent and no
\* underscore form.  Fraction digits beyond the third are cut.
ParseFloat(s) ==
    LET t == Strip(s)
        signed == t # "" /\ Head(t) \in {"+", "-"}
        neg == t # "" /\ Head(t) = "-"
        body == IF signed THEN Tail(t) ELSE t
        q == SkipDigits(body, 1)
        r == IF q <= Len(body) /\ Ch(body, q) = "." THEN q + 1 ELSE q
        e == SkipDigits(body, r)
        frac == Upto(SubSeq(body, r, e - 1) \o "000", 3)
        mag == NatVal(Upto(body, q - 1)) * Scale + NatVal(frac)
    IN  IF Lower(body) \in {"inf", "infinity"} THEN (IF neg THEN NegInf ELSE PosInf)
        ELSE IF Lower(body) = "nan" THEN NaN
        ELSE IF e = Len(body) + 1 /\ (q > 1 \/ e > r)
             THEN Fin(IF neg THEN 0 - mag ELSE mag)
        ELSE ValueError

\* _safe_float(v) for a str v (validation.py lines 10-14)
SafeFloat(v) ==
    LET s == Remove(Strip(v), ",")
        f == ParseFloat(s)
    IN  IF f.k = "err" THEN Fin(0) ELSE f

\* int(f) raises for nan (ValueError) and the infinities (OverflowError)
IntRaises(f) == f.k # "fin"

\* int(f) of a finite float: truncation toward zero
IntOf(f) == IF f.v >= 0 THEN f.v \div Scale ELSE 0 - ((0 - f.v) \div Scale)

(***************************************************************************)
(* _parse_header_from_text                                                 *)
(***************************************************************************)
Anchors ==
    <<"project name", "client name", "quotation no", "quotation no.", "date",
      "prepared by">>

\* key = anchor.replace(" ", "_").replace(".", "") (line 134)
AnchorKey(anchor) == Remove(Replace(anchor, " ", "_"), ".")

HeaderKeys == {AnchorKey(Anchors[k]) : k \in 1..Len(Anchors)}

\* a dict: a function whose domain is the set of keys present
EmptyDict == [x \in {} |-> ""]
Put(d, key, val) == [x \in (DOMAIN d) \cup {key} |-> IF x = key THEN val ELSE d[x]]
Get(d, key, default) == IF key \in DOMAIN d THEN d[key] ELSE default

\* [l.strip() for l in text.splitlines() if l.strip()] (line 126)
RECURSIVE StrippedLines(_)
StrippedLines(text) ==
    IF text = <<>> THEN <<>>
    ELSE (IF Strip(Head(text)) # "" THEN <<Strip(Head(text))>> ELSE <<>>)
         \o StrippedLines(Tail(text))

\* the first anchor of the list that occurs in the line (line 130), 0 if none
FirstAnchor(line_lower) ==
    IF \E k \in 1..Len(Anchors) : Contains(line_lower, Anchors[k])
    THEN CHOOSE k \in 1..Len(Anchors) :
             /\ Contains(line_lower, Anchors[k])
             /\ \A j \in 1..(k - 1) : ~Contains(line_lower, Anchors[j])
    ELSE 0

\* next_line.lower().startswith(("s.no", "sr no", "product")) (line 139)
LooksLikeTable(next_line) ==
    LET l == Lower(next_line)
    IN  StartsWith(l, "s.no") \/ StartsWith(l, "sr no") \/ StartsWith(l, "product")

\* what line i of lines assigns: [set, key, val] (lines 128-141)
AnchorValue(lines, i) ==
    LET line == lines[i]
        line_lower == Lower(line)
        k == FirstAnchor(line_lower)
        none == [set |-> FALSE, key |-> "", val |-> ""]
    IN  IF k = 0 THEN none
        ELSE LET anchor == Anchors[k]
                 rest == Strip(LStripColon(Strip(
                             From(line, Find(line_lower, anchor) + Len(anchor) + 1))))
                 key == AnchorKey(anchor)
             IN  IF rest # "" THEN [set |-> TRUE, key |-> key, val |-> rest]
                 ELSE IF i + 1 <= Len(lines)
                      THEN LET next_line == Strip(lines[i + 1])
                           IN  IF next_line # "" /\ ~LooksLikeTable(next_line)
                               THEN [set |-> TRUE, key |-> key, val |-> next_line]
                               ELSE none
                 ELSE none

\* the body of the loop of line 127 for line i
HeaderStep(out, lines, i) ==
    LET a == AnchorValue(lines, i)
    IN  IF a.set THEN Put(out, a.key, a.val) ELSE out

RECURSIVE HeaderLoop(_, _, _)
HeaderLoop(out, lines, i) ==
    IF i > Len(lines) THEN out
    ELSE HeaderLoop(HeaderStep(out, lines, i), lines, i + 1)

ParseHeaderFromText(text) == HeaderLoop(EmptyDict, StrippedLines(text), 1)

(***************************************************************************)
(* _parse_totals_from_text                                                 *)
(***************************************************************************)
Last(seq) == seq[Len(seq)]

\* the body of the loop of line 307 for one line
TotalsStep(out, line) ==
    LET line_lower == Lower(line)
        nums == FindNums(line, 1)
        o1 == IF Contains(line_lower, "sub") /\ Contains(line_lower, "total") /\ nums # <<>>
              THEN [out EXCEPT !.subtotal = SafeFloat(Last(nums))] ELSE out
        o2 == IF TaxLine(line_lower) /\ nums # <<>>
              THEN [o1 EXCEPT !.tax = SafeFloat(Last(nums))] ELSE o1
        o3 == IF Contains(line_lower, "grand") /\ Contains(line_lower, "total") /\ nums # <<>>
              THEN [o2 EXCEPT !.grand_total = SafeFloat(Last(nums))] ELSE o2
    IN  o3

RECURSIVE TotalsLoop(_, _)
TotalsLoop(out, text) ==
    IF text = <<>> THEN out
    ELSE TotalsLoop(TotalsStep(out, Head(text)), Tail(text))

ZeroTotals == [subtotal |-> Fin(0), tax |-> Fin(0), grand_total |-> Fin(0)]

ParseTotalsFromText(text) == TotalsLoop(ZeroTotals, text)

(***************************************************************************)
(* Inputs                                                                  *)
(***************************************************************************)
\* lines after the table header line, at most
MaxBody == 3
\* images extract_images_from_pdf returns, at most
MaxImages == 2

SeqsUpTo(S, n) == UNION {[1..k -> S] : k \in 0..n}

MLHeader == "S.No Specs Price Qty Amount"
SLHeader == "S.No Name Qty"

\* lines of a multi-line block table: a start line, a price line with the
\* currency glyph, a totals line with a glyph and a number, a dimensions
\* line, a description line, a price line without glyph
MLCorpus == {"1 Sofa", "$ 5 2 $10", "Total $ 9", "18 X 9", "Teak", "7 2 14"}

\* lines of a one-line-per-row table: a full row, a row with serial 0.5 and
\* signed numbers, a row whose qty is a special float spelling, a totals
\* line, a one-token line, a row with a signed serial, a short row that
\* starts with whitespace
SLCorpus ==
    {"2 a b c d e 3 5 15", "0.5 a b c d e -2 -5 9", "4 a b c d e nan 5 5",
     "Total 15", "Note", "-3 Stool", "  Chair  x"}

\* lines of a document head without item table
HdrCorpus == {"Date: 1", "Date: 2", "Date", "Client Name: Bo", "Grand Total 9"}

\* lines read inside an open block: price lines with 2, 2 (decimal qty), 1, 0
\* and 4 numeric tokens, numbers around a multiplier with and without the
\* spaces has_x looks for, number lines with one and with two stray
\* characters, a lone number, and dimension lines with a suffix keyword in
\* the middle, at the end, in lower case, and with two keywords
BlockCorpus ==
    {"$ 5 2", "$ 5 2.5", "$ 7", "$", "$ 1,200 2 $2,400 9",
     "1800x900", "1800 X 900", "7 2 ?9", "7 2 ab", "7",
     "18 X 9 Base in ply", "18 X 9 Matte Finish", "18 X 9 top in oak",
     "9 Dia X 4 H Internal x Base y"}

\* one block: a start line, a line of BlockCorpus, and nothing, a price line,
\* or a second dimension line and a price line after it
BlockTexts ==
    {<<MLHeader, "1 Sofa", b>> \o t :
        b \in BlockCorpus, t \in {<<>>, <<"$ 5 2 $10">>, <<"18 X 9", "7 2 14">>}}

\* lines of the totals block: each category with a number, without one, with
\* several tokens, a line that begins with "tax" inside a longer word, and a
\* line whose only token is a comma
TotalsCorpus ==
    {"Sub Total 5", "Sub Total", "Sub Total: 1,200 7.5", "Tax 5", "Taxes 9",
     "TAX: 2", "Grand Total 9", "Grand Total,"}

TotalsTexts ==
    {<<a>> : a \in TotalsCorpus} \cup {<<a, b>> : a \in TotalsCorpus, b \in TotalsCorpus}

\* table header lines: serial-number headers that select the block strategy
\* or lack one of its words, in several spellings, and "product" headers
HeaderCorpus ==
    {"S.No Specs Amount", "s.no SPECS QTY AMOUNT", "S.No Specs Price Qty",
     "Sr. No Name Qty", "Product Specs Price Amount", "Product Qty"}

\* lines before the table header: none, an anchor on its own line, a
\* "product" header line, a line that no header pattern matches
LeadCorpus == {<<>>, <<"Date">>, <<"Product Description">>, <<"Prepared by:", "Al">>}

\* lines after the table header: nothing, a block, a row whose amount is not
\* qty x unit_price, a row without amount
HeadTexts ==
    {a \o <<h>> \o b :
        a \in LeadCorpus, h \in HeaderCorpus,
        b \in {<<>>, <<"1 Sofa", "$ 5 2 $10">>, <<"3 a b c d e 2 5 15">>,
                <<"5 a b c d e 2 5">>}}
    \cup {<<"Date", "1 Sofa">>, <<"Items", "1 Sofa", "Total 5">>}

\* texts with an indented line: a totals line after a row, a totals line
\* that closes a block, a tax line, a start line
IndentTexts ==
    {<<SLHeader, "2 a b c d e 3 5 15", "  Total 15">>,
     <<MLHeader, "1 Sofa", "  Total $ 9">>,
     <<MLHeader, "  1 Sofa", "$ 5 2 $10">>,
     <<"  Tax 5">>,
     <<"Date: 1", "   ", "Tax 5">>}

\* two blocks: the first with a dimension line, a second dimension line or
\* a description line, and its price line; the second with its price line,
\* with a totals line or open at the end of the lines
TwoBlockTexts ==
    {<<MLHeader, "1 Sofa", "18 X 9", b, "$ 5 2 $10", "2 Bed">> \o t :
        b \in {"9 X 4", "Teak"}, t \in {<<>>, <<"7 2 14">>, <<"Total $ 9">>}}

Texts ==
    {<<MLHeader>> \o b : b \in SeqsUpTo(MLCorpus, MaxBody)}
    \cup {<<SLHeader>> \o b : b \in SeqsUpTo(SLCorpus, MaxBody)}
    \cup SeqsUpTo(HdrCorpus, MaxBody)
    \cup BlockTexts
    \cup TotalsTexts
    \cup HeadTexts
    \cup IndentTexts
    \cup TwoBlockTexts

(***************************************************************************)
(* State                                                                   *)
(***************************************************************************)
VARIABLES
    text,              \* extract_text_from_pdf(pdf_path).splitlines()
    pc,                \* where parse_pdf_to_structured_data stands
    header,            \* the dict of _parse_header_from_text
    lines,             \* lines of _parse_table_from_text (line 244)
    header_idx,        \* 1-based position of the table header line, 0 if none
    use_multiline,     \* the strategy chosen at line 263
    i,                 \* 1-based position of the line a row segmenter reads
    rows,              \* the rows a segmenter has appended
    blk,               \* the locals of the open block of _parse_table_multiline
    src,               \* history: per row, the positions in lines it was made of
    cur,               \* history: the positions the open block has read
    totals,            \* the dict of _parse_totals_from_text
    extracted_images,  \* what extract_images_from_pdf returned
    data,              \* the SQStructuredData returned (lines 376-381)
    errors             \* the list validate_sq_data returned

vars ==
    <<text, pc, header, lines, header_idx, use_multiline, i, rows, blk, src, cur,
      totals, extracted_images, data, errors>>

NoBlock ==
    [sr_no |-> "", name |-> "", dimensions |-> "", description_parts |-> <<>>,
     unit_price |-> "", qty |-> "", amount |-> ""]

NoSrc == [start |-> 0, body |-> {}, price |-> 0]

\* Project() of schema.py with its defaults
EmptyProject ==
    [project_name |-> "", client_name |-> "", quotation_no |-> "", date |-> "",
     prepared_by |-> ""]

EmptyData ==
    [project |-> EmptyProject, products |-> <<>>, summary |-> ZeroTotals,
     extracted_images |-> <<>>]

Init ==
    /\ text \in Texts
    /\ pc = "header"
    /\ header = EmptyDict
    /\ lines = <<>>
    /\ header_idx = 0
    /\ use_multiline = FALSE
    /\ i = 0
    /\ rows = <<>>
    /\ blk = NoBlock
    /\ src = <<>>
    /\ cur = NoSrc
    /\ totals = ZeroTotals
    /\ extracted_images = <<>>
    /\ data = EmptyData
    /\ errors = <<>>

(***************************************************************************)
(* parse_pdf_to_structured_data, lines 333-334: header and table header    *)
(***************************************************************************)
ParseHeader ==
    /\ pc = "header"
    /\ header' = ParseHeaderFromText(text)
    /\ pc' = "table"
    /\ UNCHANGED <<text, lines, header_idx, use_multiline, i, rows, blk, src, cur, totals,
                   extracted_images, data,
                   errors>>

\* [l for l in text.splitlines() if l.strip()] (line 244): not stripped
RECURSIVE NonBlankLines(_)
NonBlankLines(t) ==
    IF t = <<>> THEN <<>>
    ELSE (IF Strip(Head(t)) # "" THEN <<Head(t)>> ELSE <<>>) \o NonBlankLines(Tail(t))

\* the least position of ls that satisfies P, 0 if none
FirstIndex(ls, P(_)) ==
    IF \E k \in 1..Len(ls) : P(ls[k])
    THEN CHOOSE k \in 1..Len(ls) : P(ls[k]) /\ \A j \in 1..(k - 1) : ~P(ls[j])
    ELSE 0

\* mutant of FindHeaderIdx: the "product" line first, else the serial-number
\* header
FindHeaderIdxProductFirst(ls) ==
    IF FirstIndex(ls, ProductHeader) # 0 THEN FirstIndex(ls, ProductHeader)
    ELSE FirstIndex(ls, SerialHeader)

\* lines 245-258: the serial-number header first, else the "product" line
FindHeaderIdx(ls) ==
    IF FirstIndex(ls, SerialHeader) # 0 THEN FirstIndex(ls, SerialHeader)
    ELSE FirstIndex(ls, ProductHeader)

\* _parse_table_from_text up to the choice of the strategy (lines 244-266)
FindTable ==
    /\ pc = "table"
    /\ lines' = NonBlankLines(text)
    /\ header_idx' = FindHeaderIdx(lines')
    /\ use_multiline' = (header_idx' # 0 /\ UseMultiline(lines'[header_idx']))
    /\ i' = header_idx' + 1
    /\ pc' = IF header_idx' = 0 THEN "totals"
             ELSE IF use_multiline' THEN "multi_scan"
             ELSE "single"
    /\ UNCHANGED <<text, header, rows, blk, src, cur, totals, extracted_images, data, errors>>

(***************************************************************************)
(* _parse_table_multiline: pc = "multi_scan" is the outer loop (no block   *)
(* open), pc = "multi_block" the inner loop (a block is open)              *)
(***************************************************************************)
\* the dict appended at lines 222-233
BlockRow(b) ==
    [sr_no |-> b.sr_no,
     name |-> b.name,
     description |-> IF b.description_parts # <<>> THEN Join(b.description_parts) ELSE "",
     dimensions |-> b.dimensions,
     area |-> "",
     material |-> "",
     finish |-> "",
     qty |-> IF b.qty # "" THEN b.qty ELSE "1",
     unit_price |-> b.unit_price,
     amount |-> b.amount]

\* while i < len(lines) fails (line 168): return rows
MLEnd ==
    /\ pc = "multi_scan"
    /\ i > Len(lines)
    /\ pc' = "totals"
    /\ UNCHANGED <<text, header, lines, header_idx, use_multiline, i, rows, blk, src, cur, totals,
                   extracted_images, data,
                   errors>>

\* a totals line ends the outer loop (lines 170-171)
MLTotals ==
    /\ pc = "multi_scan"
    /\ i <= Len(lines)
    /\ IsTotalsLine(lines[i])
    /\ pc' = "totals"
    /\ UNCHANGED <<text, header, lines, header_idx, use_multiline, i, rows, blk, src, cur, totals,
                   extracted_images, data,
                   errors>>

\* a start line opens a block (lines 173-181)
MLStart ==
    /\ pc = "multi_scan"
    /\ i <= Len(lines)
    /\ ~IsTotalsLine(lines[i])
    /\ StartMatch(lines[i]).ok
    /\ blk' = [NoBlock EXCEPT !.sr_no = StartMatch(lines[i]).sr_no,
                              !.name = Normalize(StartMatch(lines[i]).name)]
    /\ cur' = [NoSrc EXCEPT !.start = i]
    /\ i' = i + 1
    /\ pc' = "multi_block"
    /\ UNCHANGED <<text, header, lines, header_idx, use_multiline, rows, src, totals,
                   extracted_images, data,
                   errors>>

\* mutant of MLSkip: the line index is not advanced
MLSkipStays ==
    /\ pc = "multi_scan"
    /\ i <= Len(lines)
    /\ ~IsTotalsLine(lines[i])
    /\ ~StartMatch(lines[i]).ok
    /\ UNCHANGED <<text, pc, header, lines, header_idx, use_multiline, i, rows, blk, src, cur,
                   totals, extracted_images, data, errors>>

\* any other line is passed over (line 235)
MLSkip ==
    /\ pc = "multi_scan"
    /\ i <= Len(lines)
    /\ ~IsTotalsLine(lines[i])
    /\ ~StartMatch(lines[i]).ok
    /\ i' = i + 1
    /\ UNCHANGED <<text, pc, header, lines, header_idx, use_multiline, rows, blk, src, cur, totals,
                   extracted_images, data,
                   errors>>

\* the inner loop ends with the lines (line 182): the block is appended
BlkEnd ==
    /\ pc = "multi_block"
    /\ i > Len(lines)
    /\ rows' = Append(rows, BlockRow(blk))
    /\ src' = Append(src, cur)
    /\ pc' = "multi_scan"
    /\ UNCHANGED <<text, header, lines, header_idx, use_multiline, i, blk, cur, totals,
                   extracted_images, data,
                   errors>>

\* mutant of BlkTotals: the block open at a totals line is dropped
BlkTotalsDrops ==
    /\ pc = "multi_block"
    /\ i <= Len(lines)
    /\ IsTotalsLine(lines[i])
    /\ pc' = "multi_scan"
    /\ UNCHANGED <<text, header, lines, header_idx, use_multiline, i, rows, blk, src, cur, totals,
                   extracted_images, data,
                   errors>>

\* a totals line breaks the inner loop (lines 184-185): the block is
\* appended (lines 221-234) and the outer loop reads the same line again
BlkTotals ==
    /\ pc = "multi_block"
    /\ i <= Len(lines)
    /\ IsTotalsLine(lines[i])
    /\ rows' = Append(rows, BlockRow(blk))
    /\ src' = Append(src, cur)
    /\ pc' = "multi_scan"
    /\ UNCHANGED <<text, header, lines, header_idx, use_multiline, i, blk, cur, totals,
                   extracted_images, data,
                   errors>>

\* mutant of BlkPrice: the price test comes before the totals test
BlkPriceBeforeTotals ==
    /\ pc = "multi_block"
    /\ i <= Len(lines)
    /\ IsPriceLine(lines[i])
    /\ LET t == ParsePriceLine(lines[i])
           b == [blk EXCEPT !.unit_price = t[1], !.qty = t[2], !.amount = t[3]]
       IN  /\ blk' = b
           /\ rows' = Append(rows, BlockRow(b))
    /\ cur' = [cur EXCEPT !.price = i]
    /\ src' = Append(src, cur')
    /\ i' = i + 1
    /\ pc' = "multi_scan"
    /\ UNCHANGED <<text, header, lines, header_idx, use_multiline, totals, extracted_images, data,
                   errors>>

\* a price line ends the block (lines 197-200, 221-234)
BlkPrice ==
    /\ pc = "multi_block"
    /\ i <= Len(lines)
    /\ ~IsTotalsLine(lines[i])
    /\ IsPriceLine(lines[i])
    /\ LET t == ParsePriceLine(lines[i])
           b == [blk EXCEPT !.unit_price = t[1], !.qty = t[2], !.amount = t[3]]
       IN  /\ blk' = b
           /\ rows' = Append(rows, BlockRow(b))
    /\ cur' = [cur EXCEPT !.price = i]
    /\ src' = Append(src, cur')
    /\ i' = i + 1
    /\ pc' = "multi_scan"
    /\ UNCHANGED <<text, header, lines, header_idx, use_multiline, totals, extracted_images, data,
                   errors>>

\* mutant of BlkDims: a dimension line sets dimensions although they are set
BlkDimsOverwrites ==
    /\ pc = "multi_block"
    /\ i <= Len(lines)
    /\ ~IsTotalsLine(lines[i])
    /\ ~IsPriceLine(lines[i])
    /\ IsDimLine(lines[i])
    /\ LET d == DimSplit(lines[i])
       IN  blk' = [blk EXCEPT
                     !.dimensions = d.dimensions,
                     !.description_parts =
                         IF d.desc # "" THEN Append(@, d.desc) ELSE @]
    /\ cur' = [cur EXCEPT !.body = @ \cup {i}]
    /\ i' = i + 1
    /\ UNCHANGED <<text, pc, header, lines, header_idx, use_multiline, rows, src, totals,
                   extracted_images, data, errors>>

\* the first dimension line of the block (lines 204-217)
BlkDims ==
    /\ pc = "multi_block"
    /\ i <= Len(lines)
    /\ ~IsTotalsLine(lines[i])
    /\ ~IsPriceLine(lines[i])
    /\ blk.dimensions = ""
    /\ IsDimLine(lines[i])
    /\ LET d == DimSplit(lines[i])
       IN  blk' = [blk EXCEPT
                     !.dimensions = d.dimensions,
                     !.description_parts =
                         IF d.desc # "" THEN Append(@, d.desc) ELSE @]
    /\ cur' = [cur EXCEPT !.body = @ \cup {i}]
    /\ i' = i + 1
    /\ UNCHANGED <<text, pc, header, lines, header_idx, use_multiline, rows, src, totals,
                   extracted_images, data,
                   errors>>

\* mutant of BlkDesc: a line of the form <integer> <rest> read inside a block
\* closes the block and opens the next one
BlkDescRestarts ==
    /\ pc = "multi_block"
    /\ i <= Len(lines)
    /\ ~IsTotalsLine(lines[i])
    /\ ~IsPriceLine(lines[i])
    /\ ~(blk.dimensions = "" /\ IsDimLine(lines[i]))
    /\ IF StartMatch(lines[i]).ok
       THEN /\ rows' = Append(rows, BlockRow(blk))
            /\ src' = Append(src, cur)
            /\ blk' = [NoBlock EXCEPT !.sr_no = StartMatch(lines[i]).sr_no,
                                      !.name = Normalize(StartMatch(lines[i]).name)]
            /\ cur' = [NoSrc EXCEPT !.start = i]
       ELSE /\ blk' = [blk EXCEPT !.description_parts = Append(@, Normalize(lines[i]))]
            /\ cur' = [cur EXCEPT !.body = @ \cup {i}]
            /\ UNCHANGED <<rows, src>>
    /\ i' = i + 1
    /\ UNCHANGED <<text, pc, header, lines, header_idx, use_multiline, totals,
                   extracted_images, data, errors>>

\* any other line of the block is description (lines 218-219)
BlkDesc ==
    /\ pc = "multi_block"
    /\ i <= Len(lines)
    /\ ~IsTotalsLine(lines[i])
    /\ ~IsPriceLine(lines[i])
    /\ ~(blk.dimensions = "" /\ IsDimLine(lines[i]))
    /\ blk' = [blk EXCEPT !.description_parts = Append(@, Normalize(lines[i]))]
    /\ cur' = [cur EXCEPT !.body = @ \cup {i}]
    /\ i' = i + 1
    /\ UNCHANGED <<text, pc, header, lines, header_idx, use_multiline, rows, src, totals,
                   extracted_images, data,
                   errors>>

(***************************************************************************)
(* _parse_table_from_text, lines 275-301: one line per row                 *)
(***************************************************************************)
\* _normalize(parts[k]) if len(parts) > k else "" (1-based k)
Part(parts, k) == IF Len(parts) >= k THEN Normalize(parts[k]) ELSE ""

\* the dict of lines 286-296; it has no "description" key
SingleRow(parts) ==
    [sr_no |-> Part(parts, 1),
     name |-> Part(parts, 2),
     dimensions |-> Part(parts, 3),
     area |-> Part(parts, 4),
     material |-> Part(parts, 5),
     finish |-> Part(parts, 6),
     qty |-> Part(parts, 7),
     unit_price |-> Part(parts, 8),
     amount |-> Part(parts, 9)]

\* mutant of SrNoRejected: an empty serial is rejected too
SrNoRejectedEmptyToo(sr_no) == ~PlainNumber(sr_no)

\* the test of line 297
SrNoRejected(sr_no) == sr_no # "" /\ ~PlainNumber(sr_no)

\* the for loop is over (line 277)
SLEnd ==
    /\ pc = "single"
    /\ i > Len(lines)
    /\ pc' = "totals"
    /\ UNCHANGED <<text, header, lines, header_idx, use_multiline, i, rows, blk, src, cur, totals,
                   extracted_images, data,
                   errors>>

\* mutant of SLTotals: a totals line is passed over and the loop goes on
SLTotalsContinues ==
    /\ pc = "single"
    /\ i <= Len(lines)
    /\ IsTotalsLine(lines[i])
    /\ i' = i + 1
    /\ UNCHANGED <<text, pc, header, lines, header_idx, use_multiline, rows, blk, src, cur, totals,
                   extracted_images, data,
                   errors>>

\* a totals line ends the loop (lines 279-281)
SLTotals ==
    /\ pc = "single"
    /\ i <= Len(lines)
    /\ IsTotalsLine(lines[i])
    /\ pc' = "totals"
    /\ UNCHANGED <<text, header, lines, header_idx, use_multiline, i, rows, blk, src, cur, totals,
                   extracted_images, data,
                   errors>>

\* fewer than 2 parts: the line is passed over (lines 283-285)
SLShort ==
    /\ pc = "single"
    /\ i <= Len(lines)
    /\ ~IsTotalsLine(lines[i])
    /\ Len(PartsForLine(lines[i])) < 2
    /\ i' = i + 1
    /\ UNCHANGED <<text, pc, header, lines, header_idx, use_multiline, rows, blk, src, cur, totals,
                   extracted_images, data,
                   errors>>

\* a serial that is not a plain number: the row is passed over (lines 297-299)
SLSkip ==
    /\ pc = "single"
    /\ i <= Len(lines)
    /\ ~IsTotalsLine(lines[i])
    /\ Len(PartsForLine(lines[i])) >= 2
    /\ SrNoRejected(SingleRow(PartsForLine(lines[i])).sr_no)
    /\ i' = i + 1
    /\ UNCHANGED <<text, pc, header, lines, header_idx, use_multiline, rows, blk, src, cur, totals,
                   extracted_images, data,
                   errors>>

\* the row is appended (line 300)
SLEmit ==
    /\ pc = "single"
    /\ i <= Len(lines)
    /\ ~IsTotalsLine(lines[i])
    /\ Len(PartsForLine(lines[i])) >= 2
    /\ ~SrNoRejected(SingleRow(PartsForLine(lines[i])).sr_no)
    /\ rows' = Append(rows, SingleRow(PartsForLine(lines[i])))
    /\ src' = Append(src, [NoSrc EXCEPT !.start = i])
    /\ i' = i + 1
    /\ UNCHANGED <<text, pc, header, lines, header_idx, use_multiline, blk, cur, totals,
                   extracted_images, data,
                   errors>>

(***************************************************************************)
(* parse_pdf_to_structured_data, lines 335-381                             *)
(***************************************************************************)
ParseTotals ==
    /\ pc = "totals"
    /\ totals' = ParseTotalsFromText(text)
    /\ pc' = "images"
    /\ UNCHANGED <<text, header, lines, header_idx, use_multiline, i, rows, blk, src, cur,
                   extracted_images, data,
                   errors>>

\* extract_images_from_pdf: some sequence of image blobs, here 1, 2, .., n
ExtractImages ==
    /\ pc = "images"
    /\ \E n \in 0..MaxImages : extracted_images' = [k \in 1..n |-> k]
    /\ pc' = "assemble"
    /\ UNCHANGED <<text, header, lines, header_idx, use_multiline, i, rows, blk, src, cur, totals, data,
                   errors>>

Max(a, b) == IF a >= b THEN a ELSE b

\* mutant of ImageOffset: no leading image is skipped
ImageOffsetZero(num_images, num_products) == 0

\* image_offset (lines 348-350)
ImageOffset(num_images, num_products) == Max(0, num_images - num_products)

\* product_images of the row at 1-based position idx (lines 352-353)
ProductImages(images, num_products, idx) ==
    LET img_idx == ImageOffset(Len(images), num_products) + idx
    IN  IF img_idx <= Len(images) THEN <<images[img_idx]>> ELSE <<>>

\* mutant of ProductSrNo: no fallback to the position of the row
ProductSrNoNoFallback(row, idx) == IntOf(SafeFloat(row.sr_no))

\* int(_safe_float(row.get("sr_no", 0))) or (i + 1) (line 356)
ProductSrNo(row, idx) ==
    IF IntOf(SafeFloat(row.sr_no)) # 0 THEN IntOf(SafeFloat(row.sr_no)) ELSE idx

\* int(_safe_float(row.get("qty", 1))) (line 363)
ProductQty(row) == IntOf(SafeFloat(row.qty))

\* the int() of line 356 or of line 363 raises
RowRaises(row) == IntRaises(SafeFloat(row.sr_no)) \/ IntRaises(SafeFloat(row.qty))

\* Product(...) of lines 355-367 for the row at 1-based position idx
ProductOf(row, idx, images, num_products) ==
    [sr_no |-> ProductSrNo(row, idx),
     name |-> row.name,
     description |-> IF "description" \in DOMAIN row THEN row.description ELSE row.name,
     dimensions |-> row.dimensions,
     area |-> row.area,
     material |-> row.material,
     finish |-> row.finish,
     qty |-> ProductQty(row),
     unit_price |-> SafeFloat(row.unit_price),
     amount |-> SafeFloat(row.amount),
     images |-> ProductImages(images, num_products, idx)]

\* Project(...) of lines 338-344
ProjectOf(h) ==
    [project_name |-> Get(h, "project_name", ""),
     client_name |-> Get(h, "client_name", ""),
     quotation_no |-> Get(h, "quotation_no", ""),
     date |-> Get(h, "date", ""),
     prepared_by |-> Get(h, "prepared_by", "")]

\* mutant of ProductsOf: the rows are taken from the last to the first
ProductsOfReversed(table_rows, images) ==
    [k \in 1..Len(table_rows) |->
        ProductOf(table_rows[Len(table_rows) + 1 - k], k, images, Len(table_rows))]

\* the loop of lines 351-368
ProductsOf(table_rows, images) ==
    [k \in 1..Len(table_rows) |->
        ProductOf(table_rows[k], k, images, Len(table_rows))]

\* lines 338-381 when no row raises: the document is returned
Assemble ==
    /\ pc = "assemble"
    /\ \A k \in 1..Len(rows) : ~RowRaises(rows[k])
    /\ data' = [project |-> ProjectOf(header),
                products |-> ProductsOf(rows, extracted_images),
                summary |-> totals,
                extracted_images |-> extracted_images]
    /\ pc' = "done"
    /\ UNCHANGED <<text, header, lines, header_idx, use_multiline, i, rows, blk, src,
                   cur, totals, extracted_images,
                   errors>>

\* lines 351-368 when the int() of some row raises: the exception leaves
\* parse_pdf_to_structured_data and nothing is returned
AssembleRaises ==
    /\ pc = "assemble"
    /\ \E k \in 1..Len(rows) : RowRaises(rows[k])
    /\ pc' = "raised"
    /\ UNCHANGED <<text, header, lines, header_idx, use_multiline, i, rows, blk, src,
                   cur, totals, extracted_images, data,
                   errors>>

(***************************************************************************)
(* validation.py and parse_pdf_with_validation                             *)
(***************************************************************************)
\* the tolerance 0.01 of line 23, in thousandths
Tolerance == 10

\* n * f for an int n and a float f
FloatMul(n, f) ==
    IF f.k = "fin" THEN Fin(n * f.v)
    ELSE IF f.k = "nan" \/ n = 0 THEN NaN
    ELSE IF (f.k = "inf") = (n > 0) THEN PosInf
    ELSE NegInf

\* a - b for floats
FloatSub(a, b) ==
    IF a.k = "nan" \/ b.k = "nan" THEN NaN
    ELSE IF a.k = "fin" /\ b.k = "fin" THEN Fin(a.v - b.v)
    ELSE IF a.k = b.k THEN NaN
    ELSE IF a.k = "inf" \/ b.k = "ninf" THEN PosInf
    ELSE NegInf

\* abs(f)
FloatAbs(f) ==
    IF f.k = "fin" THEN Fin(IF f.v < 0 THEN 0 - f.v ELSE f.v)
    ELSE IF f.k = "nan" THEN NaN
    ELSE PosInf

\* f != 0
NonZero(f) == ~(f.k = "fin" /\ f.v = 0)

\* f > 0.01
AboveTolerance(f) == f.k = "inf" \/ (f.k = "fin" /\ f.v > Tolerance)

\* str(n) for an int n >= 0
RECURSIVE NatStr(_)
NatStr(n) ==
    LET d == Ch("0123456789", (n % 10) + 1)
    IN  IF n < 10 THEN d ELSE NatStr(n \div 10) \o d

\* the fraction digits of str(f): thousandths without trailing zeros, at
\* least one digit
FracStr(m) ==
    IF m % 100 = 0 THEN NatStr(m \div 100)
    ELSE IF m % 10 = 0 THEN NatStr(m \div 100) \o NatStr((m \div 10) % 10)
    ELSE NatStr(m \div 100) \o NatStr((m \div 10) % 10) \o NatStr(m % 10)

\* str(f) for a float f
FloatStr(f) ==
    IF f.k = "nan" THEN "nan"
    ELSE IF f.k = "inf" THEN "inf"
    ELSE IF f.k = "ninf" THEN "-inf"
    ELSE LET mag == IF f.v < 0 THEN 0 - f.v ELSE f.v
         IN  (IF f.v < 0 THEN "-" ELSE "")
             \o NatStr(mag \div Scale) \o "." \o FracStr(mag % Scale)

\* mutant of ValidateProduct: no test that amount and expected are non-zero
ValidateProductNoGuard(product, index) ==
    LET expected == FloatMul(product.qty, product.unit_price)
    IN  IF AboveTolerance(FloatAbs(FloatSub(product.amount, expected)))
        THEN <<[field |-> "products[" \o NatStr(index) \o "].amount",
                message |-> "amount should equal qty * unit_price ("
                            \o FloatStr(expected) \o ")",
                value |-> FloatStr(product.amount)]>>
        ELSE <<>>

\* _validate_product(product, index), index counted from 0
ValidateProduct(product, index) ==
    LET expected == FloatMul(product.qty, product.unit_price)
    IN  IF /\ NonZero(product.amount)
           /\ NonZero(expected)
           /\ AboveTolerance(FloatAbs(FloatSub(product.amount, expected)))
        THEN <<[field |-> "products[" \o NatStr(index) \o "].amount",
                message |-> "amount should equal qty * unit_price ("
                            \o FloatStr(expected) \o ")",
                value |-> FloatStr(product.amount)]>>
        ELSE <<>>

\* validate_sq_data over the first n products
RECURSIVE ValidateUpTo(_, _)
ValidateUpTo(products, n) ==
    IF n = 0 THEN <<>>
    ELSE ValidateUpTo(products, n - 1) \o ValidateProduct(products[n], n - 1)

ValidateSqData(d) == ValidateUpTo(d.products, Len(d.products))

\* parse_pdf_with_validation after the parse has returned (lines 391-393)
Validate ==
    /\ pc = "done"
    /\ errors' = ValidateSqData(data)
    /\ pc' = "validated"
    /\ UNCHANGED <<text, header, lines, header_idx, use_multiline, i, rows, blk, src,
                   cur, totals, extracted_images, data>>

Next ==
    \/ ParseHeader
    \/ FindTable
    \/ MLEnd
    \/ MLTotals
    \/ MLStart
    \/ MLSkip
    \/ BlkEnd
    \/ BlkTotals
    \/ BlkPrice
    \/ BlkDims
    \/ BlkDesc
    \/ SLEnd
    \/ SLTotals
    \/ SLShort
    \/ SLSkip
    \/ SLEmit
    \/ ParseTotals
    \/ ExtractImages
    \/ Assemble
    \/ AssembleRaises
    \/ Validate

Spec == Init /\ [][Next]_vars

\* the outer loop of _parse_table_multiline (lines 169-235) and the loop
\* over the lines of one block (lines 182-219)
OuterScan == MLEnd \/ MLTotals \/ MLStart \/ MLSkip
BlockScan == BlkEnd \/ BlkTotals \/ BlkPrice \/ BlkDims \/ BlkDesc

\* weak fairness of BlockScan, with its enabling condition written out: the
\* guards of the five block actions cover every state at "multi_block", and
\* each of them changes i or pc
BlockScanFair == ([]<>(pc # "multi_block")) \/ ([]<><<BlockScan>>_vars)

\* the interpreter runs a loop on as long as it has an iteration to make:
\* both loops of the block parser are weakly fair
LiveSpec == Init /\ [][Next]_vars /\ WF_vars(OuterScan) /\ BlockScanFair

(***************************************************************************)
(* Properties                                                              *)
(***************************************************************************)
\* the strategy _parse_table_from_text chose (lines 262-266)
IsMulti == header_idx > 0 /\ use_multiline
IsSingle == header_idx > 0 /\ ~use_multiline

\* the ItemRecords of the returned document
Products == data.products

\* position of the first totals line after the table header, Len(lines) + 1
\* when there is none
RECURSIVE FirstTotalsFrom(_)
FirstTotalsFrom(k) ==
    IF k > Len(lines) \/ IsTotalsLine(lines[k]) THEN k ELSE FirstTotalsFrom(k + 1)

FirstTotalsIdx == FirstTotalsFrom(header_idx + 1)

\* the positions a row was made of, and the last of them
SrcLines(s) == ({s.start} \cup s.body \cup {s.price}) \ {0}
LastLine(s) == CHOOSE e \in SrcLines(s) : \A j \in SrcLines(s) : j <= e

\* the segmenter has returned
Segmented == pc \in {"totals", "images", "assemble", "done", "raised", "validated"}

\* C1 as stated: in the multi-line parser every emitted item was finalized by
\* a price line of its own block (a block that never reached a price line
\* emits no item).
C1_EveryItemHasPriceLine ==
    IsMulti => \A k \in 1..Len(src) : src[k].price # 0

\* C1 as amended: every emitted item was opened by a start line of its own
\* block; a block reaching a price line takes its price triple from that
\* line; a block still open when a totals line or the end of the lines is
\* reached is emitted as well, with qty "1" and empty unit_price and amount.
C1_OpenBlockIsEmitted ==
    IsMulti =>
        /\ (pc # "multi_block" /\ cur.start # 0) => (src # <<>> /\ Last(src) = cur)
        /\ Len(src) = Len(rows)
        /\ \A k \in 1..Len(rows) :
               LET s == src[k]
                   r == rows[k]
                   t == ParsePriceLine(lines[s.price])
               IN  /\ s.start > header_idx
                   /\ StartMatch(lines[s.start]).ok
                   /\ r.sr_no = StartMatch(lines[s.start]).sr_no
                   /\ s.price = 0 =>
                          /\ r.qty = "1" /\ r.unit_price = "" /\ r.amount = ""
                          /\ \/ LastLine(s) = Len(lines)
                             \/ IsTotalsLine(lines[LastLine(s) + 1])
                   /\ s.price # 0 =>
                          /\ IsPriceLine(lines[s.price])
                          /\ s.price = LastLine(s)
                          /\ r.unit_price = t[1]
                          /\ r.qty = (IF t[2] # "" THEN t[2] ELSE "1")
                          /\ r.amount = t[3]

\* C1 witness: the parse is over and an item came from a block that was
\* still open at a totals line.
C1_Witness ==
    /\ pc = "done"
    /\ IsMulti
    /\ \E k \in 1..Len(src) :
           /\ src[k].price = 0
           /\ LastLine(src[k]) < Len(lines)
           /\ IsTotalsLine(lines[LastLine(src[k]) + 1])
           /\ data.products[k].name = rows[k].name

\* C2: in the multi-line parser no line at or after the first totals line
\* after the table header is the start line, price line, dimensions or
\* description of an item (emitted or open), in both states the scan never
\* moves past that totals line, and no price line is a totals line.
C2_TotalsEndsScan ==
    IsMulti =>
        LET ft == FirstTotalsIdx
        IN  /\ \A k \in 1..Len(src) :
                   SrcLines(src[k]) \subseteq (header_idx + 1)..(ft - 1)
            /\ SrcLines(cur) \subseteq (header_idx + 1)..(ft - 1)
            /\ \A k \in 1..Len(src) :
                   src[k].price # 0 => ~IsTotalsLine(lines[src[k].price])
            /\ i <= ft
            /\ (Segmented /\ ft <= Len(lines)) => i = ft

\* C2 witness: the parse is over, an item was emitted, and the totals line
\* that ended the scan carries a currency glyph and is followed by a line.
C2_Witness ==
    /\ pc = "done"
    /\ IsMulti
    /\ rows # <<>>
    /\ FirstTotalsIdx < Len(lines)
    /\ HasGlyph(lines[FirstTotalsIdx])
    /\ StartMatch(lines[FirstTotalsIdx + 1]).ok

\* the lines the single-line strategy turns into rows
Emittable(line) ==
    /\ Len(PartsForLine(line)) >= 2
    /\ ~SrNoRejected(SingleRow(PartsForLine(line)).sr_no)

\* C3: in the single-line strategy every emitted row comes from a line
\* strictly between the header line and the first totals line after it, in
\* line order, and when the scan is over every line between them that makes
\* a row has been emitted: lines passed over before the totals line do not
\* stop the scan.
C3_StopsAtFirstTotals ==
    IsSingle =>
        LET ft == FirstTotalsIdx
        IN  /\ \A k \in 1..Len(src) :
                   /\ header_idx < src[k].start
                   /\ src[k].start < ft
                   /\ k > 1 => src[k - 1].start < src[k].start
            /\ Segmented =>
                   {src[k].start : k \in 1..Len(src)} =
                       {j \in (header_idx + 1)..(ft - 1) : Emittable(lines[j])}

\* C3 witness: the scan is over; a line was passed over, a later line made a
\* row, and a totals line after both ended the scan.
C3_Witness ==
    /\ pc = "done"
    /\ IsSingle
    /\ FirstTotalsIdx <= Len(lines)
    /\ \E a \in (header_idx + 1)..(FirstTotalsIdx - 1) :
           /\ ~Emittable(lines[a])
           /\ \E k \in 1..Len(src) : src[k].start > a

\* C4 as stated: assembling the StructuredDocument never raises.
C4_NeverRaises == pc # "raised"

\* the first stripped line that yields a value for the header key, 0 if none
FirstValueIdx(key) ==
    LET ls == StrippedLines(text)
        Yields(j) == AnchorValue(ls, j).set /\ AnchorValue(ls, j).key = key
    IN  IF \E j \in 1..Len(ls) : Yields(j)
        THEN CHOOSE j \in 1..Len(ls) : Yields(j) /\ \A m \in 1..(j - 1) : ~Yields(m)
        ELSE 0

\* C5 as stated: each header field is the value captured at the first line on
\* which its anchor yields a value, and the empty string when no line does.
C5_FirstMatchWins ==
    pc = "done" =>
        \A key \in HeaderKeys :
            data.project[key] =
                (IF FirstValueIdx(key) = 0 THEN ""
                 ELSE AnchorValue(StrippedLines(text), FirstValueIdx(key)).val)

\* C6: with N images, M items and offset = max(0, N - M), item k (1-based)
\* holds exactly image offset + k when offset + k <= N and no image
\* otherwise; no item holds more than one image, no image is held by two
\* items, for N >= M every item holds one image and the first N - M images
\* are held by no item, for N < M only the first N items hold an image; the
\* returned document holds the image sequence unchanged.
C6_ImageAlignment ==
    LET N == Len(extracted_images)
        M == Len(rows)
        off == IF N >= M THEN N - M ELSE 0
        held(k) == {Products[k].images[m] : m \in 1..Len(Products[k].images)}
    IN  /\ \A k \in 1..Len(Products) :
               /\ Len(Products[k].images) <= 1
               /\ held(k) = (IF off + k <= N THEN {extracted_images[off + k]} ELSE {})
               /\ N >= M => Len(Products[k].images) = 1 /\ held(k) \cap {extracted_images[m] : m \in 1..(N - M)} = {}
               /\ N < M => (Len(Products[k].images) = 1 <=> k <= N)
               /\ \A j \in 1..Len(Products) : j # k => held(j) \cap held(k) = {}
        /\ pc = "done" =>
               /\ data.extracted_images = extracted_images
               /\ Len(data.products) = M

\* C6 witness: the document is returned with items and with more images than
\* items, so leading images are skipped.
C6_Witness ==
    /\ pc = "done"
    /\ Len(data.products) >= 1
    /\ Len(data.extracted_images) > Len(data.products)
    /\ data.products[1].images = <<Len(data.extracted_images) - Len(data.products) + 1>>

\* C7 as stated: every ItemRecord has qty >= 1.
C7_QtyAtLeastOne ==
    \A k \in 1..Len(Products) : Products[k].qty >= 1

\* a float that is not negative
NonNegative(f) == f.k = "inf" \/ (f.k = "fin" /\ f.v >= 0)

\* C8 as stated: qty, unit_price and amount of every item and the three
\* totals are >= 0.
C8_NoNegativeNumber ==
    /\ \A k \in 1..Len(Products) :
           /\ Products[k].qty >= 0
           /\ NonNegative(Products[k].unit_price)
           /\ NonNegative(Products[k].amount)
    /\ NonNegative(totals.subtotal)
    /\ NonNegative(totals.tax)
    /\ NonNegative(totals.grand_total)

\* the integer part of a serial token: its leading digits ("" counts as 0)
SerialInt(tok) == NatVal(Upto(tok, SkipDigits(tok, 1) - 1))

\* C9: every ItemRecord has sr_no >= 1; the serial token of its row is empty
\* or digits with an optional decimal part, and sr_no is the integer part of
\* the token when that is not 0, else the 1-based position of the item.
C9_SerialNumber ==
    \A k \in 1..Len(Products) :
        /\ Products[k].sr_no >= 1
        /\ rows[k].sr_no = "" \/ PlainNumber(rows[k].sr_no)
        /\ Products[k].sr_no =
               (IF SerialInt(rows[k].sr_no) # 0 THEN SerialInt(rows[k].sr_no) ELSE k)

\* C9 witness: the document holds an item whose serial token has integer part
\* 0 and that is not first, and an item that keeps its parsed serial.
C9_Witness ==
    /\ pc = "done"
    /\ \E k \in 2..Len(data.products) :
           /\ rows[k].sr_no # ""
           /\ SerialInt(rows[k].sr_no) = 0
           /\ data.products[k].sr_no = k
    /\ \E k \in 1..Len(data.products) :
           SerialInt(rows[k].sr_no) # 0 /\ data.products[k].sr_no # k

PriceTokens(line) == Runs(Strip(Remove(Remove(line, ","), Rupee)), 1, DigitsDot)

\* the triple _parse_price_line returned for the block that just ended on a
\* price line
PriceTriple == <<blk.unit_price, blk.qty, blk.amount>>
JustPriced == pc = "multi_scan" /\ cur.price # 0

\* the document is returned (and possibly validated)
Returned == pc \in {"done", "validated"}

\* C11: a price line with exactly 2 numeric tokens (a, b) gives unit_price =
\* a, qty = b and amount = b, and the item of that block has unit_price =
\* the value of a, amount = the value of b (not a * b) and qty = the integer
\* part of the value of b.
C11_TwoTokensMirrorQty ==
    /\ JustPriced =>
           LET t == PriceTokens(lines[cur.price])
           IN  Len(t) = 2 => PriceTriple = <<t[1], t[2], t[2]>>
    /\ Returned =>
           \A k \in 1..Len(Products) :
               src[k].price # 0 =>
                   LET t == PriceTokens(lines[src[k].price])
                   IN  Len(t) = 2 =>
                           /\ Products[k].unit_price = SafeFloat(t[1])
                           /\ Products[k].amount = SafeFloat(t[2])
                           /\ Products[k].qty = IntOf(SafeFloat(t[2]))

\* C11 witness: the document is returned with an item whose price line
\* "$ 5 2" has two tokens: unit_price 5, qty 2, amount 2.
C11_Witness ==
    /\ pc = "done"
    /\ Len(Products) = 1
    /\ src[1].price # 0
    /\ PriceTokens(lines[src[1].price]) = <<"5", "2">>
    /\ Products[1].unit_price = Fin(5 * Scale)
    /\ Products[1].qty = 2
    /\ Products[1].amount = Fin(2 * Scale)

\* C12: with 3 or more tokens the triple is the first three tokens; with
\* exactly 1 token a it is unit_price = amount = a and qty = "1"; with 0
\* tokens all three are empty and the item of that block has qty 1,
\* unit_price 0 and amount 0.
C12_TokenMapping ==
    /\ JustPriced =>
           LET t == PriceTokens(lines[cur.price])
           IN  /\ Len(t) >= 3 => PriceTriple = <<t[1], t[2], t[3]>>
               /\ Len(t) = 1 => PriceTriple = <<t[1], "1", t[1]>>
               /\ Len(t) = 0 => PriceTriple = <<"", "", "">>
    /\ Returned =>
           \A k \in 1..Len(Products) :
               src[k].price # 0 =>
                   LET t == PriceTokens(lines[src[k].price])
                   IN  /\ Len(t) >= 3 =>
                           /\ Products[k].unit_price = SafeFloat(t[1])
                           /\ Products[k].qty = IntOf(SafeFloat(t[2]))
                           /\ Products[k].amount = SafeFloat(t[3])
                       /\ Len(t) = 1 =>
                           /\ Products[k].unit_price = SafeFloat(t[1])
                           /\ Products[k].qty = 1
                           /\ Products[k].amount = SafeFloat(t[1])
                       /\ Len(t) = 0 =>
                           /\ Products[k].unit_price = Fin(0)
                           /\ Products[k].qty = 1
                           /\ Products[k].amount = Fin(0)

\* C12 witness: the document is returned with an item whose price line has
\* four tokens and thousands separators; the fourth token is ignored.
C12_Witness ==
    /\ pc = "done"
    /\ Len(Products) = 1
    /\ src[1].price # 0
    /\ PriceTokens(lines[src[1].price]) = <<"1200", "2", "2400", "9">>
    /\ Products[1].unit_price = Fin(1200 * Scale)
    /\ Products[1].qty = 2
    /\ Products[1].amount = Fin(2400 * Scale)

\* a token that holds a digit
HasDigit(tok) == \E j \in 1..Len(tok) : IsDigit(Ch(tok, j))

\* the numeric tokens of a line of the totals block
NumericTokens(line) == SelectSeq(FindNums(line, 1), HasDigit)

\* the categories as stated
SubtotalLine(line) == Contains(Lower(line), "sub") /\ Contains(Lower(line), "total")
BeginsWithTax(line) == StartsWith(Lower(line), "tax")
GrandTotalLine(line) == Contains(Lower(line), "grand") /\ Contains(Lower(line), "total")

\* the value of the last numeric token of the last line of the text that
\* matches and has a numeric token, 0 when there is no such line
LastMatchValue(Matches(_)) ==
    LET hits == {k \in 1..Len(text) : Matches(text[k]) /\ NumericTokens(text[k]) # <<>>}
    IN  IF hits = {} THEN Fin(0)
        ELSE LET k == CHOOSE n \in hits : \A j \in hits : j <= n
             IN  SafeFloat(Last(NumericTokens(text[k])))

\* C13 as stated: per category the result is the last numeric token of the
\* last matching line that has a numeric token (tax: the line begins with
\* "tax"), 0 when there is none; a matching line without numeric token
\* leaves the value unchanged.
C13_LastMatchWins ==
    pc \in {"images", "assemble", "done", "validated"} =>
        /\ totals.subtotal = LastMatchValue(SubtotalLine)
        /\ totals.tax = LastMatchValue(BeginsWithTax)
        /\ totals.grand_total = LastMatchValue(GrandTotalLine)

\* the serial token a segmenter reads from the line that opens a row
SerialOfLine(line) ==
    IF use_multiline THEN StartMatch(line).sr_no
    ELSE Part(PartsForLine(line), 1)

\* C14: for emitted items at positions a < b every source line of item a
\* precedes every source line of item b, no source line belongs to two
\* items, each row was opened by the line recorded for it, and the items
\* of the returned document are the rows, one for one and in the same
\* order.
C14_EncounterOrder ==
    /\ Len(src) = Len(rows)
    /\ \A a \in 1..Len(src) :
           /\ src[a].start > header_idx
           /\ rows[a].sr_no = SerialOfLine(lines[src[a].start])
           /\ \A b \in 1..Len(src) :
                  a < b =>
                      /\ SrcLines(src[a]) \cap SrcLines(src[b]) = {}
                      /\ \A m \in SrcLines(src[a]) : \A n \in SrcLines(src[b]) : m < n
    /\ Returned =>
           /\ Len(Products) = Len(rows)
           /\ \A k \in 1..Len(rows) :
                  /\ Products[k].name = rows[k].name
                  /\ Products[k].dimensions = rows[k].dimensions
                  /\ Products[k].unit_price = SafeFloat(rows[k].unit_price)
                  /\ Products[k].amount = SafeFloat(rows[k].amount)

\* C14 witness: the document is returned with two items of different names
\* that come from different lines.
C14_Witness ==
    /\ pc = "done"
    /\ Len(Products) >= 2
    /\ Products[1].name # Products[2].name
    /\ src[1].start < src[2].start

\* qty x unit_price of an item, and whether its amount is further than the
\* tolerance from it
Expected(product) == FloatMul(product.qty, product.unit_price)
OffByMore(product) ==
    AboveTolerance(FloatAbs(FloatSub(product.amount, Expected(product))))

\* the field and value of the errors, one for each item that P selects, in
\* item order (positions counted from 0 in the field)
ErrorsFor(P(_)) ==
    LET hit == SelectSeq([k \in 1..Len(Products) |-> k], LAMBDA k : P(Products[k]))
    IN  [m \in 1..Len(hit) |->
            [field |-> "products[" \o NatStr(hit[m] - 1) \o "].amount",
             value |-> FloatStr(Products[hit[m]].amount)]]

\* the field and value of the errors validate_sq_data returned
FieldsAndValues == [m \in 1..Len(errors) |-> [field |-> errors[m].field, value |-> errors[m].value]]

\* the data parse_pdf_with_validation returns is the parsed data
DataUnchanged ==
    data = [project |-> ProjectOf(header),
            products |-> ProductsOf(rows, extracted_images),
            summary |-> totals,
            extracted_images |-> extracted_images]

\* C15 as stated: one error for every item whose amount differs from qty x
\* unit_price by more than 0.01 and none for the other items, in item order.
C15_EveryMismatchFlagged ==
    pc = "validated" => FieldsAndValues = ErrorsFor(OffByMore)

FlaggedByCode(product) ==
    NonZero(product.amount) /\ NonZero(Expected(product)) /\ OffByMore(product)

\* C15 amended: one error, with field products[i].amount (i counted from 0)
\* and the observed amount as value, for every item whose amount and qty x
\* unit_price are both non-zero and differ by more than 0.01, and no error
\* for any other item; errors are in item order and the data is returned
\* unchanged with them.
C15_NonZeroMismatchFlagged ==
    pc = "validated" =>
        /\ FieldsAndValues = ErrorsFor(FlaggedByCode)
        /\ DataUnchanged

\* C15 witness: two items are validated, the first within the tolerance and
\* the second not, and the one error names the second item.
C15_Witness ==
    /\ pc = "validated"
    /\ Len(Products) = 2
    /\ ~OffByMore(Products[1])
    /\ OffByMore(Products[2])
    /\ Len(errors) = 1
    /\ errors[1].field = "products[1].amount"
    /\ errors[1].value = "9.0"

\* positions of the non-blank lines that match the serial-number header
\* pattern, and of those that hold "product" with "qty", "amount" or
\* "description"
SerialLines == {k \in 1..Len(lines) : SerialHeader(lines[k])}
ProductLines == {k \in 1..Len(lines) : ProductHeader(lines[k])}
Least(S) == CHOOSE k \in S : \A j \in S : k <= j

\* the table header has been looked for
Located == pc \notin {"header", "table"}

\* C16: without a serial-number header line and without a "product" line
\* the item list is empty and nothing is raised, while the header fields
\* and the totals are still those of the text; otherwise the table header
\* is the first serial-number header line if there is one, else the first
\* "product" line, and every line an item is made of comes after it.
C16_TableHeaderChoice ==
    Located =>
        LET serial == SerialLines
            product == IF serial = {} THEN ProductLines ELSE {}
        IN  /\ lines = NonBlankLines(text)
            /\ serial = {} /\ product = {} =>
                   /\ header_idx = 0
                   /\ rows = <<>>
                   /\ pc # "raised"
                   /\ Returned =>
                          /\ Products = <<>>
                          /\ data.project = ProjectOf(ParseHeaderFromText(text))
                          /\ data.summary = ParseTotalsFromText(text)
            /\ serial # {} => header_idx = Least(serial)
            /\ serial = {} /\ product # {} => header_idx = Least(product)
            /\ \A k \in 1..Len(src) : \A m \in SrcLines(src[k]) : m > header_idx

\* C16 witness: a "product" line comes first, the serial-number header
\* second; the second line is the table header and an item follows it.
C16_Witness ==
    /\ pc = "done"
    /\ 1 \in ProductLines
    /\ 1 \notin SerialLines
    /\ header_idx = 2
    /\ Len(Products) >= 1

\* the suffix keywords, in lower case
Keywords == <<"base", "top in", "finish", "construction", "internal">>

\* 0-based position of the earliest occurrence of a keyword in the line,
\* whatever its case, -1 when no keyword occurs
EarliestKeyword(ln) ==
    LET ps == {Find(Lower(ln), Keywords[k]) : k \in 1..Len(Keywords)} \ {-1}
    IN  IF ps = {} THEN -1 ELSE CHOOSE p \in ps : \A q \in ps : p <= q

\* the line just read is the first line after the start line of the open
\* block and matches the dimension pattern: the dimensions were unset and
\* the line is not a price line
FirstBodyLineIsDims ==
    /\ pc = "multi_block"
    /\ cur.body = {i - 1}
    /\ IsDimLine(lines[i - 1])

\* C17 as stated: such a line is split at the earliest occurrence of a
\* suffix keyword, the text before it becomes dimensions and the text from
\* the keyword on is appended to the description; without keyword the whole
\* line becomes dimensions and nothing is added to the description.
C17_SplitAtKeyword ==
    FirstBodyLineIsDims =>
        LET ln == Normalize(lines[i - 1])
            pos == EarliestKeyword(ln)
        IN  IF pos >= 0
            THEN /\ blk.dimensions = Strip(Upto(ln, pos))
                 /\ blk.description_parts = <<Strip(From(ln, pos + 1))>>
            ELSE /\ blk.dimensions = ln
                 /\ blk.description_parts = <<>>

\* the line holds a multiplier marker: x in either case or the
\* multiplication sign
HasMarker(ln) == Contains(Lower(ln), "x") \/ Contains(ln, Times)

\* characters of the line that are no digit, whitespace, comma, period or
\* currency glyph
Stray(ln) == RemoveAll(ln, DigitsSpaces \cup {Rupee, ",", "."})

\* the price line as stated
StatedPriceLine(ln) ==
    \/ HasGlyph(ln)
    \/ (~HasMarker(ln) /\ Len(NumsInLn(ln)) >= 2 /\ Len(Stray(ln)) <= 1)

\* C18 as stated: a non-totals line read in an open block finalizes the
\* block as a price line if and only if it holds a currency glyph, or no
\* multiplier marker and at least 2 numeric tokens and at most one stray
\* character; numbers around a multiplier marker without currency glyph
\* (1800x900, 1800 X 900) are never a price line.
C18_PriceLineClassification ==
    IsMulti =>
        /\ \A m \in cur.body : ~StatedPriceLine(lines[m])
        /\ cur.price # 0 => StatedPriceLine(lines[cur.price])
        /\ \A k \in 1..Len(src) :
               /\ \A m \in src[k].body : ~StatedPriceLine(lines[m])
               /\ src[k].price # 0 => StatedPriceLine(lines[src[k].price])

\* the line begins with a serial-number header (the pattern of the table
\* header at the start of the line), with a "product" header or with a row
\* marker (digits, whitespace, text)
BeginsWithSerialHeader(line) ==
    LET l == Lower(line)
        After(n) == SkipSpaces(l, IF n <= Len(l) /\ Ch(l, n) = "." THEN n + 1 ELSE n)
    IN  \/ StartsWith(l, "s") /\ StartsAt(l, After(2), "no")
        \/ StartsWith(l, "sr") /\ StartsAt(l, After(3), "no")

StartsItemTable(line) ==
    \/ BeginsWithSerialHeader(line)
    \/ StartsWith(Lower(line), "product")
    \/ StartMatch(line).ok

\* what line j of the stripped lines assigns as stated: the text after the
\* anchor, or, when that is empty, the next line unless there is none or it
\* starts the item table
StatedValue(ls, j) ==
    LET line == ls[j]
        k == FirstAnchor(Lower(line))
        none == [set |-> FALSE, key |-> "", val |-> ""]
    IN  IF k = 0 THEN none
        ELSE LET rest == Strip(LStripColon(Strip(
                             From(line, Find(Lower(line), Anchors[k]) + Len(Anchors[k]) + 1))))
                 key == AnchorKey(Anchors[k])
             IN  IF rest # "" THEN [set |-> TRUE, key |-> key, val |-> rest]
                 ELSE IF j + 1 <= Len(ls) /\ ~StartsItemTable(ls[j + 1])
                      THEN [set |-> TRUE, key |-> key, val |-> ls[j + 1]]
                 ELSE none

\* C19 as stated: an anchor whose own line gives no text takes the next
\* line, unless there is no next line or the next line looks like the start
\* of the item table; then the occurrence sets nothing and the field stays
\* empty unless another line sets it.
C19_NextLineFallback ==
    pc # "header" =>
        LET ls == StrippedLines(text)
        IN  \A key \in HeaderKeys :
                LET J == {j \in 1..Len(ls) : StatedValue(ls, j).set /\ StatedValue(ls, j).key = key}
                IN  Get(header, key, "") =
                        (IF J = {} THEN ""
                         ELSE StatedValue(ls, CHOOSE j \in J : \A m \in J : m <= j).val)

\* the table header line holds the word, whatever its case
HeaderHas(word) == Contains(Lower(lines[header_idx]), word)

\* C20: the block strategy is used if and only if the table header line
\* holds "specs" and "amount" and one of "price" and "qty", whatever their
\* case; otherwise the single-line strategy is used, and only the chosen
\* strategy reads the lines after the header: the rows are all of its
\* making and the other one has left no trace.
C20_StrategySelection ==
    Located /\ header_idx > 0 =>
        /\ use_multiline =
               (HeaderHas("specs") /\ HeaderHas("amount")
                /\ (HeaderHas("price") \/ HeaderHas("qty")))
        /\ pc \in {"multi_scan", "multi_block"} => use_multiline
        /\ pc = "single" => ~use_multiline
        /\ \A k \in 1..Len(rows) :
               ("description" \in DOMAIN rows[k]) = use_multiline
        /\ ~use_multiline =>
               /\ blk = NoBlock
               /\ cur = NoSrc
               /\ \A k \in 1..Len(src) : src[k].body = {} /\ src[k].price = 0

\* C20 witness: the header holds "specs" and "amount" but neither "price"
\* nor "qty"; the single-line strategy has made an item.
C20_Witness ==
    /\ pc = "done"
    /\ header_idx > 0
    /\ HeaderHas("specs")
    /\ HeaderHas("amount")
    /\ ~use_multiline
    /\ Len(Products) >= 1

\* a line without leading or trailing whitespace that is not empty
Trimmed(line) == line # "" /\ line = Strip(line)

\* C21 as stated: every line the table header finder and the row segmenters
\* examine is non-empty and has no leading or trailing whitespace, the
\* classification of a line as totals line, as block start and into row
\* tokens is that of the trimmed line, and the totals are those of the
\* trimmed lines of the text.
C21_NormalizedLines ==
    /\ Located =>
           \A k \in 1..Len(lines) :
               /\ Trimmed(lines[k])
               /\ IsTotalsLine(lines[k]) = IsTotalsLine(Strip(lines[k]))
               /\ StartMatch(lines[k]).ok = StartMatch(Strip(lines[k])).ok
               /\ PartsForLine(lines[k]) = PartsForLine(Strip(lines[k]))
    /\ pc \in {"images", "assemble", "done", "validated", "raised"} =>
           totals = ParseTotalsFromText(StrippedLines(text))

\* the block parser is scanning; it is scanning or has just returned
InScan == pc \in {"multi_scan", "multi_block"}
ScanOrReturn == InScan \/ pc = "totals"

\* the first line of a block body that matches the dimension pattern, 0 when
\* there is none
FirstDimLine(body) ==
    LET D == {m \in body : IsDimLine(lines[m])}
    IN  IF D = {} THEN 0 ELSE CHOOSE m \in D : \A n \in D : m <= n

\* the dimensions a block body gives: those of its first dimension line
DimsOf(body) ==
    LET f == FirstDimLine(body)
    IN  IF f = 0 THEN "" ELSE DimSplit(lines[f]).dimensions

\* the description parts a block body with first dimension line f gives,
\* from line m on: the suffix of the first dimension line if it has one, and
\* every other line whole
RECURSIVE DescFrom(_, _, _)
DescFrom(body, f, m) ==
    IF m > Len(lines) THEN <<>>
    ELSE (IF m \notin body THEN <<>>
          ELSE IF m = f
               THEN (LET d == DimSplit(lines[m]).desc IN IF d # "" THEN <<d>> ELSE <<>>)
          ELSE <<Normalize(lines[m])>>)
         \o DescFrom(body, f, m + 1)

DescOf(body) == DescFrom(body, FirstDimLine(body), 1)

\* C22: in a block the first non-price line matching the dimension pattern
\* sets dimensions, every later dimension-pattern line of the block leaves
\* them unchanged and is appended to the description, and both start empty
\* in every block: the dimensions and the description of an item are made
\* of the lines of its own block only (while the block parser runs and when
\* it returns).
C22_DimensionsSetOnce ==
    IsMulti /\ ScanOrReturn =>
        /\ pc = "multi_block" =>
               /\ blk.dimensions = DimsOf(cur.body)
               /\ blk.description_parts = DescOf(cur.body)
        /\ \A k \in 1..Len(rows) :
               /\ rows[k].dimensions = DimsOf(src[k].body)
               /\ rows[k].description =
                      (LET parts == DescOf(src[k].body)
                       IN  IF parts # <<>> THEN Join(parts) ELSE "")

\* C22 witness: the first block has two dimension lines, the second of
\* which went to the description; the second block has none and its
\* dimensions and description are empty.
C22_Witness ==
    /\ pc = "totals"
    /\ IsMulti
    /\ Len(rows) = 2
    /\ rows[1].dimensions = "18 X 9"
    /\ rows[1].description = "9 X 4"
    /\ rows[2].dimensions = ""
    /\ rows[2].description = ""

\* the line the block parser reads ends the scan
AtScanEnd == i > Len(lines) \/ IsTotalsLine(lines[i])

\* a step of the outer or of the in-block scan: the line index advances by
\* one, or the in-block scan stops at the end of the lines or at a totals
\* line and hands over to the outer scan, or the outer scan stops there and
\* the parser returns; at a totals line the outer scan does nothing else
ScanStep ==
    InScan =>
        /\ \/ i' = i + 1 /\ ~AtScanEnd
           \/ i' = i /\ AtScanEnd /\ pc = "multi_block" /\ pc' = "multi_scan"
           \/ i' = i /\ AtScanEnd /\ pc = "multi_scan" /\ pc' = "totals"
        /\ pc = "multi_scan" /\ AtScanEnd => pc' = "totals" /\ rows' = rows

\* C23: every step of the outer and of the in-block scan advances the line
\* index by one or ends the scan at a totals line or at the end of the
\* lines, after the in-block scan stops the outer scan stops at the same
\* line without opening a block, and the block parser returns in the end.
C23_ScanTerminates ==
    /\ [][ScanStep]_vars
    /\ InScan ~> (pc = "totals")

\* C23 witness: the block parser has returned at a totals line that had
\* stopped the in-block scan of a block without price line before.
C23_Witness ==
    /\ pc = "totals"
    /\ IsMulti
    /\ i <= Len(lines)
    /\ IsTotalsLine(lines[i])
    /\ Len(src) >= 1
    /\ src[Len(src)].price = 0
    /\ LastLine(src[Len(src)]) = i - 1

\* the lines after the table header that pass the price-line test and are
\* not totals lines
PriceLines ==
    {m \in (header_idx + 1)..Len(lines) : IsPriceLine(lines[m]) /\ ~IsTotalsLine(lines[m])}

\* the price lines the emitted blocks ended on
ConsumedPriceLines == {src[k].price : k \in 1..Len(src)} \ {0}

\* the block of lines s runs from its start line to its last line without a
\* gap, its body lines are neither totals nor price lines, and a price line
\* is its last line
OneBlock(s) ==
    /\ s.start > header_idx
    /\ SrcLines(s) = s.start..LastLine(s)
    /\ \A m \in s.body : ~IsTotalsLine(lines[m]) /\ ~IsPriceLine(lines[m])
    /\ s.price # 0 =>
           /\ s.price = LastLine(s)
           /\ IsPriceLine(lines[s.price])
           /\ ~IsTotalsLine(lines[s.price])

\* C24: a block opens only while the parser scans for a start line: the
\* lines of a block are consecutive, a line <integer> <rest> inside a block
\* that is neither totals nor price line stays in the block and leaves the
\* serial number and the name of the item those of the block's start line,
\* blocks do not overlap, every item but possibly the last ended on one
\* price line of its own, and there are at most as many items as price
\* lines plus one (while the block parser runs and when it returns).
C24_BlockOpensOnlyWhenScanning ==
    IsMulti /\ ScanOrReturn =>
        /\ pc = "multi_block" => OneBlock(cur) /\ cur.price = 0 /\ LastLine(cur) = i - 1
        /\ \A k \in 1..Len(rows) :
               /\ OneBlock(src[k])
               /\ rows[k].sr_no = StartMatch(lines[src[k].start]).sr_no
               /\ rows[k].name = Normalize(StartMatch(lines[src[k].start]).name)
               /\ k < Len(rows) =>
                      /\ src[k].price # 0
                      /\ src[k + 1].start > LastLine(src[k])
                      /\ src[k + 1].price # src[k].price
        /\ LET consumed == ConsumedPriceLines
                priced == PriceLines
           IN  /\ Len(rows) <= Cardinality(consumed) + 1
               /\ consumed \subseteq priced
               /\ Len(rows) <= Cardinality(priced) + 1

\* C24 witness: the parser returned two items; the block of the first holds
\* two lines of the form <integer> <rest>, one taken as dimensions and one as
\* description, and ended on a price line; the last has no price line.
C24_Witness ==
    /\ pc = "totals"
    /\ IsMulti
    /\ Len(rows) = 2
    /\ Cardinality({m \in src[1].body : StartMatch(lines[m]).ok}) = 2
    /\ rows[1].dimensions # ""
    /\ rows[1].description # ""
    /\ src[1].price # 0
    /\ src[2].price = 0
    /\ Cardinality(PriceLines) = 1

====
